---- MODULE Spec2Model ----
(***************************************************************************)
(* Model of extract_selenium.py: the browser-driven fetch                  *)
(* (setup_driver, fetch_with_selenium), the text normaliser (clean_text),  *)
(* the content extractor (extract_content) and the plain-text renderer     *)
(* (create_text_file).                                                     *)
(*                                                                         *)
(* Text is a sequence of characters.  A character is a one-element token:  *)
(*   "x", "y", "X", "Y", "#", "="  ordinary printable characters           *)
(*   " "     ASCII space            "TAB"   tab / newline (other \s)       *)
(*   "CTL"   a control character of [\x00-\x08\x0b-\x0c\x0e-\x1f\x7f-\x9f] *)
(*   "NBSP"  U+00A0   "ZWSP"  U+200B   "BOM"  U+FEFF   "NL"  the "\n" of   *)
(*   str.join in create_text_file                                          *)
(***************************************************************************)
EXTENDS Integers, Sequences, FiniteSets, TLC

VARIABLES
    \* fetch_with_selenium / setup_driver
    pc,                 \* position inside fetch_with_selenium
    driver,             \* local `driver` of fetch_with_selenium, 0 = None
    progress_callback,  \* TRUE when the caller supplied a callback
    launched,           \* browser instances webdriver.Chrome() has created
    torn_down,          \* browser instances on which quit() took effect
    attempts,           \* number of webdriver.Chrome() calls made so far
    new_driver,         \* local `driver` of setup_driver, 0 = unbound
    trace,              \* history of the steps performed, in order
    pending,            \* message of the exception in flight, <<>> if none
    outcome,            \* how the call ended
    \* clean_text
    text,               \* the argument of clean_text
    cleaned,            \* results of successive applications of clean_text
    \* extract_content
    html_content,       \* the parsed document handed to extract_content
    main_content,       \* index of the content root, 0 = None
    content_structure,  \* the block list (extract result / renderer input)
    processed_texts,    \* the dedup set of extract_content
    block_source,       \* history: element each block came from, 0 = head
    extract_state,      \* "ready", "returned" or "raised"
    \* create_text_file
    text_content,       \* the rendered plain text
    render_state        \* "ready" or "rendered"

vars == <<pc, driver, progress_callback, launched, torn_down, attempts,
          new_driver, trace, pending, outcome, text, cleaned, html_content, main_content,
          content_structure, processed_texts, block_source, extract_state,
          text_content, render_state>>

fetchVars == <<pc, driver, progress_callback, launched, torn_down, attempts,
               new_driver, trace, pending, outcome>>
cleanVars == <<text, cleaned>>
extractVars == <<html_content, main_content, processed_texts, block_source,
                 extract_state>>
renderVars == <<text_content, render_state>>

\* Python None, for a value that is otherwise a text (a sequence)
None == <<"None">>

-----------------------------------------------------------------------------
(* Bounds *)

MaxLen == 5         \* longest argument of clean_text
MaxNodes == 3       \* most elements in a document
MaxBlocks == 2      \* longest block list handed to create_text_file

-----------------------------------------------------------------------------
(* clean_text *)

Rep(c, n) == [i \in 1..n |-> c]

\* [\x00-\x08\x0b-\x0c\x0e-\x1f\x7f-\x9f]
IsControl(c) == c = "CTL"

\* \s on a str pattern, and str.isspace(): space, \t\n\r, U+00A0
IsSpace(c) == c \in {" ", "TAB", "NBSP"}

StripControl(s) == SelectSeq(s, LAMBDA c : ~IsControl(c))

\* re.sub(r"\s+", " ", text): the first character of a whitespace run becomes
\* a space, the others ("DROP") go
CollapseWhitespace(s) ==
    LET marked == [i \in 1..Len(s) |->
                      IF ~IsSpace(s[i]) THEN s[i]
                      ELSE IF i > 1 /\ IsSpace(s[i - 1]) THEN "DROP"
                      ELSE " "]
    IN  SelectSeq(marked, LAMBDA c : c # "DROP")

ReplaceSpecial(s) ==
    LET nb == [i \in 1..Len(s) |-> IF s[i] = "NBSP" THEN " " ELSE s[i]]
    IN  SelectSeq(nb, LAMBDA c : c \notin {"ZWSP", "BOM"})

RECURSIVE LStrip(_)
LStrip(s) == IF s # <<>> /\ IsSpace(Head(s)) THEN LStrip(Tail(s)) ELSE s

RECURSIVE RStrip(_)
RStrip(s) ==
    IF s # <<>> /\ IsSpace(s[Len(s)]) THEN RStrip(SubSeq(s, 1, Len(s) - 1))
    ELSE s

Strip(s) == RStrip(LStrip(s))

clean_text(s) ==
    IF s = <<>> THEN <<>>
    ELSE Strip(ReplaceSpecial(CollapseWhitespace(StripControl(s))))

Alphabet == {"x", " ", "TAB", "CTL", "NBSP", "ZWSP", "BOM"}

Strings(n) == UNION {[1..k -> Alphabet] : k \in 0..n}

-----------------------------------------------------------------------------
(* Idle values of the variables a specification does not use *)

FetchIdle ==
    /\ pc = "idle" /\ driver = 0 /\ progress_callback = FALSE
    /\ launched = {} /\ torn_down = {} /\ attempts = 0 /\ new_driver = 0
    /\ trace = <<>> /\ pending = <<>>
    /\ outcome = [kind |-> "none", message |-> <<>>]

CleanIdle == text = <<>> /\ cleaned = <<>>

ExtractIdle ==
    /\ html_content = [title |-> None, desc |-> None, nodes |-> <<>>]
    /\ main_content = 0 /\ processed_texts = {} /\ block_source = <<>>
    /\ extract_state = "idle"

RenderIdle == text_content = <<>> /\ render_state = "idle"

-----------------------------------------------------------------------------
(* Specification of clean_text: the argument is any string over Alphabet of
   length at most MaxLen; clean_text is applied to it and then to its own
   result. *)

InitClean ==
    /\ text \in Strings(MaxLen)
    /\ cleaned = <<>>
    /\ FetchIdle /\ ExtractIdle /\ RenderIdle /\ content_structure = <<>>

ApplyCleanText ==
    /\ Len(cleaned) < 2
    /\ cleaned' = Append(cleaned,
                         clean_text(IF cleaned = <<>> THEN text
                                    ELSE cleaned[Len(cleaned)]))
    /\ UNCHANGED <<text, fetchVars, extractVars, renderVars, content_structure>>

NextClean == ApplyCleanText

SpecClean == InitClean /\ [][NextClean]_vars

-----------------------------------------------------------------------------
(* extract_content *)

(* A parsed document: the raw text of the first <title> element (None when
   there is none), the content attribute of the first
   <meta name="description"> (None when the tag or the attribute is absent),
   and the other elements in document order.  `depth` is the nesting depth:
   the descendants of element i are the elements that follow it for as long
   as their depth stays above depth(i).  `text` is the element's own text
   string, placed before its children. *)

T3 == Rep("x", 3)
T12 == Rep("x", 12)
T31 == Rep("x", 31)
PaddedT12 == <<"TAB", " ">> \o T12 \o <<" ", "TAB">>

Elem(tag, id, class, txt) == [tag |-> tag, id |-> id, class |-> class, text |-> txt]

ElementPool ==
    { Elem("main", "", "", <<>>),
      Elem("article", "", "", <<>>),
      Elem("div", "content", "", <<>>),
      Elem("div", "sidebar", "wrapper", <<>>),
      Elem("body", "", "", <<>>),
      Elem("script", "", "", T31),
      Elem("p", "", "", T12),
      Elem("p", "", "", T31),
      Elem("h2", "", "", PaddedT12) }

\* <<title text, description content>> of the documents checked
HeadPool == { <<None, None>>, <<T3, T12>>, <<PaddedT12, T3>>,
              <<PaddedT12, T12>> }

\* depth sequences of the forests with n elements in document order
Depths(n) ==
    {d \in [1..n -> 1..n] :
        /\ n > 0 => d[1] = 1
        /\ \A i \in 2..n : d[i] <= d[i - 1] + 1}

Node(e, depth) ==
    [tag |-> e.tag, id |-> e.id, class |-> e.class, text |-> e.text,
     depth |-> depth]

Descendants(nodes, i) ==
    {j \in (i + 1)..Len(nodes) :
        \A k \in (i + 1)..j : nodes[k].depth > nodes[i].depth}

\* the elements of `nodes` at the indices in S, in document order
RECURSIVE Keep(_, _, _)
Keep(nodes, S, i) ==
    IF i > Len(nodes) THEN <<>>
    ELSE (IF i \in S THEN <<nodes[i]>> ELSE <<>>) \o Keep(nodes, S, i + 1)

StripTags == {"script", "style", "noscript", "iframe", "svg", "path"}

\* for tag in soup([...]): tag.decompose()
Decompose(nodes) ==
    LET gone == {i \in 1..Len(nodes) :
                    \/ nodes[i].tag \in StripTags
                    \/ \E a \in 1..(i - 1) : /\ nodes[a].tag \in StripTags
                                             /\ i \in Descendants(nodes, a)}
    IN  Keep(nodes, (1..Len(nodes)) \ gone, 1)

\* element.get_text(strip=True): every string stripped, empty ones skipped
RECURSIVE JoinStripped(_, _, _)
JoinStripped(nodes, S, i) ==
    IF i > Len(nodes) THEN <<>>
    ELSE (IF i \in S THEN Strip(nodes[i].text) ELSE <<>>)
         \o JoinStripped(nodes, S, i + 1)

get_text(nodes, i) == JoinStripped(nodes, {i} \cup Descendants(nodes, i), 1)

\* soup.find(...): the first element in document order, 0 for None
First(S) == IF S = {} THEN 0 ELSE CHOOSE i \in S : \A j \in S : i <= j

FindTag(nodes, tag) == First({i \in 1..Len(nodes) : nodes[i].tag = tag})

\* re.compile(r"content|main", re.I).search(id), on the ids of ElementPool
IdMatches(id) == id \in {"content", "main", "Main-Content"}

\* re.compile(r"content|main|wrapper", re.I).search(class)
ClassMatches(c) == c \in {"content", "main", "wrapper"}

FindId(nodes) == First({i \in 1..Len(nodes) : IdMatches(nodes[i].id)})

FindClass(nodes) == First({i \in 1..Len(nodes) : ClassMatches(nodes[i].class)})

\* mutant: the first candidate of any kind in document order
SelectRootDocOrder(nodes) ==
    First({i \in 1..Len(nodes) :
              \/ nodes[i].tag \in {"main", "article", "body"}
              \/ IdMatches(nodes[i].id)
              \/ ClassMatches(nodes[i].class)})

\* soup.find("main") or soup.find("article") or ... or soup.find("body")
SelectRoot(nodes) ==
    IF FindTag(nodes, "main") # 0 THEN FindTag(nodes, "main")
    ELSE IF FindTag(nodes, "article") # 0 THEN FindTag(nodes, "article")
    ELSE IF FindId(nodes) # 0 THEN FindId(nodes)
    ELSE IF FindClass(nodes) # 0 THEN FindClass(nodes)
    ELSE FindTag(nodes, "body")

Headings == {"h1", "h2", "h3", "h4", "h5", "h6"}
ShortNoise == {"a", "span", "div"}
WalkTags == Headings \cup {"p", "li", "td", "blockquote", "div", "span", "a"}

Block(type, txt) == [type |-> type, text |-> txt]

\* the title block, lines 128-133
TitleStep(doc, st) ==
    IF doc.title = None THEN st
    ELSE LET title_text == clean_text(doc.title)
         IN  IF Len(title_text) > 3
             THEN [blocks |-> Append(st.blocks, Block("title", title_text)),
                   seen |-> st.seen \cup {title_text},
                   src |-> Append(st.src, 0)]
             ELSE st

\* mutant: the description is inserted in front of the blocks so far
DescStepFront(doc, st) ==
    IF doc.desc = None \/ doc.desc = <<>> THEN st
    ELSE LET desc_text == clean_text(doc.desc)
         IN  IF Len(desc_text) > 10
             THEN [blocks |-> <<Block("paragraph", desc_text)>> \o st.blocks,
                   seen |-> st.seen \cup {desc_text},
                   src |-> <<0>> \o st.src]
             ELSE st

\* the meta description block, lines 135-140
DescStep(doc, st) ==
    IF doc.desc = None \/ doc.desc = <<>> THEN st
    ELSE LET desc_text == clean_text(doc.desc)
         IN  IF Len(desc_text) > 10
             THEN [blocks |-> Append(st.blocks, Block("paragraph", desc_text)),
                   seen |-> st.seen \cup {desc_text},
                   src |-> Append(st.src, 0)]
             ELSE st

\* the admission rules applied to the text t of element i, lines 169-180
Admit(name, t, i, st) ==
    IF t = <<>> \/ Len(t) < 10 \/ t \in st.seen THEN st
    ELSE IF Len(t) < 20 /\ name \in ShortNoise THEN st
    ELSE IF name \in Headings
         THEN [blocks |-> Append(st.blocks, Block(name, t)),
               seen |-> st.seen \cup {t},
               src |-> Append(st.src, i)]
    ELSE IF Len(t) > 30
         THEN [blocks |-> Append(st.blocks, Block("paragraph", t)),
               seen |-> st.seen \cup {t},
               src |-> Append(st.src, i)]
    ELSE [st EXCEPT !.seen = st.seen \cup {t}]

\* one iteration of the for loop, lines 167-180
Visit(nodes, i, st) ==
    Admit(nodes[i].tag, clean_text(get_text(nodes, i)), i, st)

\* main_content.find_all([...]) visited in document order from element i on
RECURSIVE Walk(_, _, _, _)
Walk(nodes, root, i, st) ==
    IF i > Len(nodes) THEN st
    ELSE IF i \in Descendants(nodes, root) /\ nodes[i].tag \in WalkTags
         THEN Walk(nodes, root, i + 1, Visit(nodes, i, st))
         ELSE Walk(nodes, root, i + 1, st)

Soup(doc) == [doc EXCEPT !.nodes = Decompose(doc.nodes)]

\* the documents handed to extract_content: a head of HeadPool and at most
\* MaxNodes elements of ElementPool, nested in every possible way
InitExtract ==
    /\ \E k \in 0..MaxNodes :
         \E d \in Depths(k) :
            \E h \in HeadPool :
               \E e \in [1..k -> ElementPool] :
                  html_content = [title |-> h[1], desc |-> h[2],
                                  nodes |-> [i \in 1..k |-> Node(e[i], d[i])]]
    /\ main_content = 0
    /\ content_structure = <<>>
    /\ processed_texts = {}
    /\ block_source = <<>>
    /\ extract_state = "ready"
    /\ FetchIdle /\ CleanIdle /\ RenderIdle

\* lines 142-180: the traversal of the content root, if there is one
Traverse(nodes, root, head) ==
    [root |-> root,
     st |-> IF root = 0 THEN head ELSE Walk(nodes, root, 1, head)]

\* lines 125-180 on the parsed and stripped document
ExtractFrom(soup) ==
    Traverse(soup.nodes, SelectRoot(soup.nodes),
             DescStep(soup, TitleStep(soup,
                 [blocks |-> <<>>, seen |-> {}, src |-> <<>>])))

extract_content ==
    /\ extract_state = "ready"
    /\ \E r \in {ExtractFrom(Soup(html_content))} :
          /\ main_content' = r.root
          \* None.find_all raises AttributeError
          /\ extract_state' = IF r.root = 0 THEN "raised" ELSE "returned"
          /\ content_structure' = r.st.blocks
          /\ processed_texts' = r.st.seen
          /\ block_source' = r.st.src
    /\ UNCHANGED <<html_content, fetchVars, cleanVars, renderVars>>

NextExtract == extract_content

SpecExtract == InitExtract /\ [][NextExtract]_vars

-----------------------------------------------------------------------------
(* Properties of extract_content, checked under SpecExtract *)

SoupNodes == Decompose(html_content.nodes)

NormText(i) == clean_text(get_text(SoupNodes, i))

TitleQualifies ==
    html_content.title # None /\ Len(clean_text(html_content.title)) > 3

DescQualifies ==
    html_content.desc # None /\ Len(clean_text(html_content.desc)) > 10

\* C3: no two blocks of the returned sequence have identical text, whatever
\* their kinds, the title block and the description block included.
C3_UniqueTexts ==
    extract_state = "returned" =>
        \A i, j \in 1..Len(content_structure) :
            i # j => content_structure[i].text # content_structure[j].text

\* C5: extract_content never raises; a document in which nothing qualifies,
\* one with no content root candidate at all (not even <body>) included,
\* yields an empty sequence.
C5_NeverFails ==
    extract_state # "ready" =>
        /\ extract_state = "returned"
        /\ (/\ ~TitleQualifies
            /\ ~DescQualifies
            /\ \A i \in 1..Len(SoupNodes) : Len(NormText(i)) < 10)
              => content_structure = <<>>

\* C6: a heading under the content root whose normalized text has length
\* >= 10 and was not emitted by the head or by an earlier element yields
\* exactly one block of its own heading kind with that text, and that block
\* comes from the heading itself.
C6_HeadingEmitted ==
    extract_state = "returned" =>
        \A j \in Descendants(SoupNodes, main_content) :
            (/\ SoupNodes[j].tag \in Headings
             /\ Len(NormText(j)) >= 10
             /\ ~\E b \in 1..Len(content_structure) :
                    /\ block_source[b] < j
                    /\ content_structure[b].text = NormText(j))
            => /\ Cardinality({b \in 1..Len(content_structure) :
                     content_structure[b] = Block(SoupNodes[j].tag, NormText(j))}) = 1
               /\ \E b \in 1..Len(content_structure) :
                     /\ block_source[b] = j
                     /\ content_structure[b] = Block(SoupNodes[j].tag, NormText(j))

\* C7: a qualifying title is the block at index 1 (the first) and the only
\* block of kind title; a qualifying description is the paragraph right after
\* it, or the first block when no title qualifies; both precede every block
\* that comes from the traversal.
C7_TitleThenDescription ==
    extract_state = "returned" =>
        LET cs == content_structure
            titles == {i \in 1..Len(cs) : cs[i].type = "title"}
            nhead == (IF TitleQualifies THEN 1 ELSE 0)
                     + (IF DescQualifies THEN 1 ELSE 0)
            dpos == IF TitleQualifies THEN 2 ELSE 1
        IN  /\ TitleQualifies =>
                /\ Len(cs) >= 1
                /\ cs[1] = Block("title", clean_text(html_content.title))
                /\ titles = {1}
            /\ ~TitleQualifies => titles = {}
            /\ DescQualifies =>
                /\ Len(cs) >= dpos
                /\ cs[dpos] = Block("paragraph", clean_text(html_content.desc))
            /\ \A i \in 1..Len(cs) : block_source[i] # 0 => i > nhead

\* a returned sequence with a title block, a description paragraph and a
\* block from the traversal
C7_Witness ==
    /\ extract_state = "returned"
    /\ TitleQualifies /\ DescQualifies
    /\ Len(content_structure) >= 3
    /\ content_structure[1] = Block("title", T12)

\* the elements of the k-th candidate kind
Candidates(nodes, k) ==
    {i \in 1..Len(nodes) :
        CASE k = 1 -> nodes[i].tag = "main"
          [] k = 2 -> nodes[i].tag = "article"
          [] k = 3 -> nodes[i].id \in {"content"}
          [] k = 4 -> nodes[i].class \in {"wrapper"}
          [] k = 5 -> nodes[i].tag = "body"}

\* C10: the content root is the first element of the highest-priority
\* candidate kind present (<main>, <article>, id match, class match, <body>),
\* wherever the candidates sit in the document, and every block that comes
\* from the traversal comes from a descendant of that root.
C10_RootPriority ==
    extract_state # "ready" =>
        \A nodes \in {SoupNodes} :
            /\ main_content = 0 <=> \A k \in 1..5 : Candidates(nodes, k) = {}
            /\ main_content # 0 =>
                  \E k \in 1..5 :
                      /\ main_content \in Candidates(nodes, k)
                      /\ \A i \in Candidates(nodes, k) : main_content <= i
                      /\ \A h \in 1..(k - 1) : Candidates(nodes, h) = {}
            /\ \A b \in 1..Len(content_structure) :
                  block_source[b] # 0 =>
                      block_source[b] \in Descendants(nodes, main_content)

\* an <article> nested inside an earlier class-matching element is the root
C10_Witness ==
    /\ extract_state = "returned"
    /\ main_content > 1
    /\ SoupNodes[main_content].tag = "article"
    /\ \E a \in 1..(main_content - 1) :
          /\ a \in Candidates(SoupNodes, 4)
          /\ main_content \in Descendants(SoupNodes, a)
    /\ \E b \in 1..Len(content_structure) : block_source[b] > main_content

-----------------------------------------------------------------------------
(* setup_driver and fetch_with_selenium *)

(* An exception is its message, a sequence of parts; the exception raised by
   the except clause prefixes the cause's message with "Error fetching
   content: ".  Whether a browser call succeeds is the environment's choice. *)

Wrap(msg) == <<"Error fetching content: ">> \o msg

\* mutant: the page is captured after the second scroll stage
StepAfterSkipTop(p) ==
    CASE p = "progress10" -> "launch_system"
      [] p \in {"launch_system", "launch_default", "launch_managed"} -> "stealth"
      [] p = "stealth" -> "progress30"
      [] p = "progress30" -> "get"
      [] p = "get" -> "progress50"
      [] p = "progress50" -> "wait"
      [] p = "wait" -> "settle"
      [] p = "settle" -> "progress70"
      [] p = "progress70" -> "scroll_middle"
      [] p = "scroll_middle" -> "pause_middle"
      [] p = "pause_middle" -> "scroll_bottom"
      [] p = "scroll_bottom" -> "pause_bottom"
      [] p = "pause_bottom" -> "capture"
      [] p = "scroll_top" -> "pause_top"
      [] p = "pause_top" -> "capture"
      [] p = "capture" -> "progress90"
      [] p = "progress90" -> "return"

\* the statement that follows statement p when p completes normally
StepAfter(p) ==
    CASE p = "progress10" -> "launch_system"
      [] p \in {"launch_system", "launch_default", "launch_managed"} -> "stealth"
      [] p = "stealth" -> "progress30"
      [] p = "progress30" -> "get"
      [] p = "get" -> "progress50"
      [] p = "progress50" -> "wait"
      [] p = "wait" -> "settle"
      [] p = "settle" -> "progress70"
      [] p = "progress70" -> "scroll_middle"
      [] p = "scroll_middle" -> "pause_middle"
      [] p = "pause_middle" -> "scroll_bottom"
      [] p = "scroll_bottom" -> "pause_bottom"
      [] p = "pause_bottom" -> "scroll_top"
      [] p = "scroll_top" -> "pause_top"
      [] p = "pause_top" -> "capture"
      [] p = "capture" -> "progress90"
      [] p = "progress90" -> "return"

Did(event) ==
    /\ trace' = Append(trace, event)
    /\ pc' = StepAfter(pc)

\* the exception propagates to the except clause of fetch_with_selenium
Raise(msg) ==
    /\ pending' = msg
    /\ pc' = "except"

InitFetch ==
    /\ pc = "progress10"
    /\ driver = 0
    /\ progress_callback \in BOOLEAN
    /\ launched = {} /\ torn_down = {} /\ attempts = 0 /\ new_driver = 0
    /\ trace = <<>> /\ pending = <<>>
    /\ outcome = [kind |-> "none", message |-> <<>>]
    /\ CleanIdle /\ ExtractIdle /\ RenderIdle /\ content_structure = <<>>

notFetch == <<text, cleaned, extractVars, renderVars, content_structure>>

\* if progress_callback: progress_callback(message, percent)
Progress ==
    /\ pc \in {"progress10", "progress30", "progress50", "progress70",
               "progress90"}
    /\ pc' = StepAfter(pc)
    /\ trace' = IF progress_callback THEN Append(trace, pc) ELSE trace
    /\ UNCHANGED <<driver, progress_callback, launched, torn_down, attempts,
                   new_driver, pending, outcome, notFetch>>

\* a webdriver.Chrome(...) call that starts a browser
Launch ==
    /\ attempts' = attempts + 1
    /\ launched' = launched \cup {attempts + 1}
    /\ new_driver' = attempts + 1
    /\ Did("launch")
    /\ UNCHANGED pending

\* a webdriver.Chrome(...) call that raises; `next` is the fallback, or
\* "except" when the exception leaves setup_driver
LaunchFails(next) ==
    /\ attempts' = attempts + 1
    /\ trace' = Append(trace, "launch_failed")
    /\ pc' = next
    /\ pending' = IF next = "except" THEN <<"cannot start chrome">> ELSE pending
    /\ UNCHANGED <<launched, new_driver>>

\* webdriver.Chrome(service=Service("/usr/bin/chromedriver"), options=...)
LaunchSystem ==
    /\ pc = "launch_system"
    /\ Launch \/ LaunchFails("launch_default")
    /\ UNCHANGED <<driver, progress_callback, torn_down, outcome, notFetch>>

\* except: webdriver.Chrome(options=...)
LaunchDefault ==
    /\ pc = "launch_default"
    /\ Launch \/ LaunchFails("launch_managed")
    /\ UNCHANGED <<driver, progress_callback, torn_down, outcome, notFetch>>

\* except: webdriver.Chrome(service=Service(ChromeDriverManager().install()))
LaunchManaged ==
    /\ pc = "launch_managed"
    /\ Launch \/ LaunchFails("except")
    /\ UNCHANGED <<driver, progress_callback, torn_down, outcome, notFetch>>

\* driver.execute_script("Object.defineProperty(navigator, 'webdriver', ...)")
\* then `return driver`, bound to fetch_with_selenium's `driver`
Stealth ==
    /\ pc = "stealth"
    /\ \/ /\ Did("stealth")
          /\ driver' = new_driver
          /\ UNCHANGED pending
       \/ /\ Raise(<<"javascript error">>)
          /\ UNCHANGED <<driver, trace>>
    /\ UNCHANGED <<progress_callback, launched, torn_down, attempts,
                   new_driver, outcome, notFetch>>

\* a browser call of the try block, which either completes or raises `msg`
BrowserCall(event, msg) ==
    /\ \/ Did(event) /\ UNCHANGED pending
       \/ Raise(msg) /\ UNCHANGED trace
    /\ UNCHANGED <<driver, progress_callback, launched, torn_down, attempts,
                   new_driver, outcome, notFetch>>

\* driver.get(url)
Get ==
    /\ pc = "get"
    /\ BrowserCall("get", <<"navigation failed">>)

\* WebDriverWait(driver, 10).until(presence_of_element_located(body))
WaitBody ==
    /\ pc = "wait"
    /\ BrowserCall("wait", <<"timeout">>)

\* time.sleep(5), time.sleep(2), time.sleep(2), time.sleep(1)
Sleep ==
    /\ pc \in {"settle", "pause_middle", "pause_bottom", "pause_top"}
    /\ Did(pc)
    /\ UNCHANGED <<driver, progress_callback, launched, torn_down, attempts,
                   new_driver, pending, outcome, notFetch>>

\* driver.execute_script("window.scrollTo(...)"), three times
Scroll ==
    /\ pc \in {"scroll_middle", "scroll_bottom", "scroll_top"}
    /\ BrowserCall(pc, <<"javascript error">>)

\* html_content = driver.page_source; page_title = driver.title
Capture ==
    /\ pc = "capture"
    /\ BrowserCall("capture", <<"no such window">>)

\* return html_content, page_title: the finally clause runs first
Return ==
    /\ pc = "return"
    /\ pc' = "finally"
    /\ UNCHANGED <<driver, progress_callback, launched, torn_down, attempts,
                   new_driver, trace, pending, outcome, notFetch>>

\* except Exception as e: raise Exception(f"Error fetching content: {str(e)}")
Except ==
    /\ pc = "except"
    /\ pending' = Wrap(pending)
    /\ pc' = "finally"
    /\ UNCHANGED <<driver, progress_callback, launched, torn_down, attempts,
                   new_driver, trace, outcome, notFetch>>

\* finally: if driver: driver.quit()   and the call ends.  An exception
\* raised by quit() replaces the return value or the exception in flight;
\* the browser may or may not have exited by then.
Finally ==
    /\ pc = "finally"
    /\ pc' = "done"
    /\ \/ /\ driver = 0
          /\ UNCHANGED torn_down
          /\ outcome' = IF pending = <<>>
                        THEN [kind |-> "returned", message |-> <<>>]
                        ELSE [kind |-> "raised", message |-> pending]
          /\ trace' = IF pending = <<>> THEN Append(trace, "return") ELSE trace
       \/ /\ driver # 0
          /\ torn_down' = torn_down \cup {driver}
          /\ outcome' = IF pending = <<>>
                        THEN [kind |-> "returned", message |-> <<>>]
                        ELSE [kind |-> "raised", message |-> pending]
          /\ trace' = IF pending = <<>> THEN trace \o <<"quit", "return">>
                      ELSE Append(trace, "quit")
       \/ /\ driver # 0
          /\ \E exited \in BOOLEAN :
                torn_down' = IF exited THEN torn_down \cup {driver}
                             ELSE torn_down
          /\ outcome' = [kind |-> "raised", message |-> <<"quit failed">>]
          /\ trace' = Append(trace, "quit_failed")
    /\ UNCHANGED <<driver, progress_callback, launched, attempts, new_driver,
                   pending, notFetch>>

NextFetch ==
    \/ Progress \/ LaunchSystem \/ LaunchDefault \/ LaunchManaged \/ Stealth
    \/ Get \/ WaitBody \/ Sleep \/ Scroll \/ Capture \/ Return \/ Except
    \/ Finally

SpecFetch == InitFetch /\ [][NextFetch]_vars

-----------------------------------------------------------------------------
(* Properties of fetch_with_selenium, checked under SpecFetch *)

Count(seq, e) == Cardinality({i \in 1..Len(seq) : seq[i] = e})

Position(seq, e) == CHOOSE i \in 1..Len(seq) : seq[i] = e

ProgressEvents ==
    {"progress10", "progress30", "progress50", "progress70", "progress90"}

\* C1: when the call has ended, every browser that was launched during it
\* has been quit.
C1_EveryBrowserTornDown == pc = "done" => launched \subseteq torn_down

\* C2: a call that fails ends with the wrapped error, whose message contains
\* the cause's message, and no step (browser launch included) was attempted
\* twice.
C2_SingleWrappedError ==
    (pc = "done" /\ outcome.kind = "raised") =>
        /\ Len(outcome.message) = 2
        /\ Head(outcome.message) = "Error fetching content: "
        /\ attempts <= 1
        /\ \A e \in {trace[i] : i \in 1..Len(trace)} : Count(trace, e) = 1

\* C9: a call that returns a result performed, once each and in this order,
\* launch, navigation, body wait, settle delay, scroll to middle, bottom and
\* top, capture, teardown, return; with a callback the milestones reported
\* are 10, 30, 50, 70, 90 in that order, 90 after the capture.
C9_StepOrder ==
    outcome.kind = "returned" =>
        /\ SelectSeq(trace, LAMBDA e :
               e \in {"launch", "get", "wait", "settle", "scroll_middle",
                      "scroll_bottom", "scroll_top", "capture", "quit",
                      "return"})
             = <<"launch", "get", "wait", "settle", "scroll_middle",
                 "scroll_bottom", "scroll_top", "capture", "quit", "return">>
        /\ SelectSeq(trace, LAMBDA e : e \in ProgressEvents)
             = IF progress_callback
               THEN <<"progress10", "progress30", "progress50", "progress70",
                      "progress90">>
               ELSE <<>>
        /\ progress_callback =>
               Position(trace, "progress90") > Position(trace, "capture")
        /\ launched = {driver} /\ torn_down = {driver}

\* a returning call with a callback whose first two launch attempts failed
C9_Witness ==
    /\ pc = "done"
    /\ outcome.kind = "returned"
    /\ progress_callback
    /\ attempts = 3
    /\ trace[Len(trace)] = "return"

-----------------------------------------------------------------------------
(* create_text_file *)

\* str.upper() on the characters of the block texts
Upper(c) == CASE c = "x" -> "X" [] c = "y" -> "Y" [] OTHER -> c

UpperText(s) == [i \in 1..Len(s) |-> Upper(s[i])]

\* int(item["type"][1])
Level(type) ==
    CASE type = "h1" -> 1 [] type = "h2" -> 2 [] type = "h3" -> 3
      [] type = "h4" -> 4 [] type = "h5" -> 5 [] type = "h6" -> 6

\* the lines one block appends to text_content, lines 229-241
BlockLines(item) ==
    IF item.type = "title"
    THEN <<Rep("=", 80), UpperText(item.text), Rep("=", 80), <<>>>>
    ELSE IF item.type \in {"h1", "h2", "h3", "h4"}
    THEN <<<<>>, Rep("#", Level(item.type)) \o <<" ">> \o item.text, <<>>>>
    ELSE IF item.type = "paragraph"
    THEN <<item.text, <<>>>>
    ELSE <<>>

RECURSIVE RenderLines(_)
RenderLines(blocks) ==
    IF blocks = <<>> THEN <<>>
    ELSE BlockLines(Head(blocks)) \o RenderLines(Tail(blocks))

\* "\n".join(lines)
RECURSIVE Join(_)
Join(lines) ==
    IF lines = <<>> THEN <<>>
    ELSE IF Len(lines) = 1 THEN lines[1]
    ELSE lines[1] \o <<"NL">> \o Join(Tail(lines))

create_text_file(blocks) == Join(RenderLines(blocks))

Y12 == Rep("y", 12)

\* block lists extract_content can return: a title only in front, heading
\* texts of length >= 10, paragraph texts of length > 10
RenderBlocks ==
    {Block(h, t) : h \in Headings, t \in {T12, Y12}}
        \cup {Block("paragraph", T31)}

RenderInputs(n) ==
    UNION {{(IF withTitle THEN <<Block("title", T12)>> ELSE <<>>) \o rest :
               withTitle \in BOOLEAN, rest \in [1..k -> RenderBlocks]}
           : k \in 0..n}

InitRender ==
    /\ content_structure \in {bs \in RenderInputs(MaxBlocks) :
                                 Len(bs) <= MaxBlocks}
    /\ text_content = <<>>
    /\ render_state = "ready"
    /\ FetchIdle /\ CleanIdle /\ ExtractIdle

Render ==
    /\ render_state = "ready"
    /\ text_content' = create_text_file(content_structure)
    /\ render_state' = "rendered"
    /\ UNCHANGED <<content_structure, fetchVars, cleanVars, extractVars>>

NextRender == Render

SpecRender == InitRender /\ [][NextRender]_vars

\* the block list without its i-th block
Without(blocks, i) ==
    SubSeq(blocks, 1, i - 1) \o SubSeq(blocks, i + 1, Len(blocks))

\* the lines appended for the i-th block
LinesOf(blocks, i) ==
    LET before == Len(RenderLines(SubSeq(blocks, 1, i - 1)))
        upto == Len(RenderLines(SubSeq(blocks, 1, i)))
    IN  SubSeq(RenderLines(blocks), before + 1, upto)

\* C8: every heading block of level n in 1..6 is rendered as an empty line,
\* n '#' characters, a space and the heading text, and an empty line, so the
\* output differs from that of the list without the block.
C8_AllHeadingLevels ==
    render_state = "rendered" =>
        \A i \in 1..Len(content_structure) :
            content_structure[i].type \in Headings =>
                /\ LinesOf(content_structure, i)
                     = << <<>>,
                          Rep("#", Level(content_structure[i].type))
                             \o <<" ">> \o content_structure[i].text,
                          <<>> >>
                /\ text_content
                     # create_text_file(Without(content_structure, i))

-----------------------------------------------------------------------------
(* Properties of clean_text, checked under SpecClean *)

\* C4: clean_text is idempotent, and its result never contains two
\* consecutive spaces.
C4_Idempotent ==
    /\ Len(cleaned) = 2 => cleaned[2] = cleaned[1]
    /\ Len(cleaned) >= 1 =>
          \A i \in 1..(Len(cleaned[1]) - 1) :
              ~(cleaned[1][i] = " " /\ cleaned[1][i + 1] = " ")

====
